---- MODULE Spec2Model ----
(***************************************************************************)
(* Model of js/app.js: InteractionTracker, EvolutionEngine and the parts   *)
(* of PortfolioApp that drive them, inside one browser tab.                *)
(*                                                                         *)
(* Time is Date.now() in milliseconds.  The page runs on the browser's     *)
(* event loop: every action below is one callback run to completion        *)
(* (a DOM event with all its listeners, or one timer callback).            *)
(* localStorage is the only state that survives a page load.               *)
(***************************************************************************)
EXTENDS Integers, Sequences, FiniteSets, TLC

VARIABLES
    now,          \* the system clock, Date.now()
    phase,        \* "closed" (no page) or "open" (PortfolioApp constructed)
    storage,      \* localStorage: key -> blob
    data,         \* InteractionTracker.data
    currentSection,    \* InteractionTracker.currentSection
    sectionStartTime,  \* InteractionTracker.sectionStartTime
    maxScrollDepth,    \* InteractionTracker.maxScrollDepth, in thousandths
    evolutionHistory,  \* EvolutionEngine.evolutionHistory
    lastAppliedTimes,  \* EvolutionEngine.lastAppliedTimes (a Map)
    currentEvolutions, \* EvolutionEngine.currentEvolutions (a Set)
    dom,          \* the parts of the document the code reads or writes
    timers,       \* pending setTimeout / setInterval callbacks, in registration order
    failing,      \* the localStorage keys whose setItem currently throws
    loadTime,     \* Date.now() when the page was constructed
    applied,      \* history variable: rule -> times its action ran in this page load
    trace,        \* history variable: what the last callback did
    score,        \* the value the last getEngagementScore() call returned
    events,       \* the user and environment events the behaviour may still take
    loads         \* history variable: page loads so far

vars == <<now, phase, storage, data, currentSection, sectionStartTime,
          maxScrollDepth, evolutionHistory, lastAppliedTimes,
          currentEvolutions, dom, timers, failing, loadTime, applied, trace, score,
          events, loads>>

-----------------------------------------------------------------------------
(* Bounds of the model *)

MaxEvents == 2      \* user and environment events in one behaviour
MaxTicks == 3       \* 10-second timer periods followed per page load
MaxLoads == 2       \* page loads in one behaviour

-----------------------------------------------------------------------------
(* Program constants *)

LogCap == 1000
HistoryCap == 100
TickMs == 10000
ClickCheckDelayMs == 1000
SaveIntervalMs == 30000
ScrollLogDelayMs == 500
NoticeHideMs == 5000
ReorderDelayMs == 300
MsPerDay == 86400000

ClickKeys == {"projects", "contact", "about", "themeToggle", "social", "cta", "navigation"}
Sections == {"home", "about", "projects", "contact"}

DataKey == "portfolioInteractionData"
HistoryKey == "evolutionHistory"
StorageKeys == {DataKey, HistoryKey}

Null == "null"      \* JavaScript null where a string is expected
NoDate == -1        \* lastVisit: null
NaN == -1           \* the number NaN, where a dwell time is expected
JSONNull == -2      \* null, where a dwell time is expected

\* new Date().toDateString(): the calendar day of the clock
ToDateString(t) == t \div MsPerDay

Min(a, b) == IF a < b THEN a ELSE b

\* Array.prototype.slice(-n): the last n elements
SliceLast(s, n) == IF Len(s) <= n THEN s ELSE SubSeq(s, Len(s) - n + 1, Len(s))

-----------------------------------------------------------------------------
(* localStorage and JSON *)

NoItem == [kind |-> "none"]            \* getItem returns null
Garbage == [kind |-> "garbage"]        \* a string JSON.parse rejects

JSONStringify(v) == [kind |-> "json", value |-> v]

\* JSON.parse: a value, or a SyntaxError
JSONParse(b) == IF b.kind = "json" THEN [ok |-> TRUE, value |-> b.value]
                ELSE [ok |-> FALSE]

\* localStorage.setItem; it throws for the keys in `bad` (quota exceeded,
\* storage disabled) and then leaves the stored item as it was
\* SetItem whose failure also removes the stored item
SetItemClearing(st, key, blob, bad) ==
    IF key \in bad THEN [st EXCEPT ![key] = NoItem] ELSE [st EXCEPT ![key] = blob]

SetItem(st, key, blob, bad) ==
    IF key \in bad THEN st ELSE [st EXCEPT ![key] = blob]

-----------------------------------------------------------------------------
(* InteractionTracker *)

\* DefaultData with visitCount: 1 written for visitCount: 0
DefaultDataVisited ==
    [clicks |-> [k \in ClickKeys |-> 0],
     scrollDepth |-> 0,
     timeOnSections |-> [s \in Sections |-> 0],
     themePreference |-> "light",
     lastVisit |-> NoDate,
     visitCount |-> 1,
     sectionViews |-> [s \in Sections |-> 0],
     interactions |-> <<>>]

\* the hard-coded defaults of the constructor
DefaultData ==
    [clicks |-> [k \in ClickKeys |-> 0],
     scrollDepth |-> 0,
     timeOnSections |-> [s \in Sections |-> 0],
     themePreference |-> "light",
     lastVisit |-> NoDate,
     visitCount |-> 0,
     sectionViews |-> [s \in Sections |-> 0],
     interactions |-> <<>>]

\* loadData(): the parsed record, or null
LoadData(st) ==
    LET saved == st[DataKey] IN
    IF saved.kind = "none" THEN [found |-> FALSE]
    ELSE LET p == JSONParse(saved) IN
         IF p.ok THEN [found |-> TRUE, value |-> p.value] ELSE [found |-> FALSE]

\* what JSON.stringify makes of the record's numbers: NaN is written as null
NaNToNull(d) ==
    IF \A k \in DOMAIN d.timeOnSections : d.timeOnSections[k] # NaN THEN d
    ELSE [d EXCEPT !.timeOnSections =
             [k \in DOMAIN d.timeOnSections |->
                 IF d.timeOnSections[k] = NaN THEN JSONNull ELSE d.timeOnSections[k]]]

\* saveData()
SaveData(st, d, bad) == SetItem(st, DataKey, JSONStringify(NaNToNull(d)), bad)

\* TrackInteraction with slice(0, 1000) written for slice(-1000)
TrackInteractionKeepOldest(d, type, payload, t) ==
    LET pushed == Append(d.interactions,
                         [type |-> type, timestamp |-> t, data |-> payload]) IN
    [d EXCEPT !.interactions =
        IF Len(pushed) > LogCap THEN SubSeq(pushed, 1, LogCap) ELSE pushed]

\* trackInteraction(type, data)
TrackInteraction(d, type, payload, t) ==
    LET pushed == Append(d.interactions,
                         [type |-> type, timestamp |-> t, data |-> payload]) IN
    [d EXCEPT !.interactions =
        IF Len(pushed) > LogCap THEN SliceLast(pushed, LogCap) ELSE pushed]

\* the tracker's own document-click listener; what it records of the clicked
\* element (tag, class, id, text, position) is left out
TrackerDocumentClick(d, t) ==
    LET pushed == Append(d.interactions,
                         [type |-> "click", timestamp |-> t, data |-> <<>>]) IN
    [d EXCEPT !.interactions =
        IF Len(pushed) > LogCap THEN SliceLast(pushed, LogCap) ELSE pushed]

\* IncrementClick with `= 1` written for `++`
IncrementClickAssign(clicks, key) ==
    IF key \in DOMAIN clicks THEN [clicks EXCEPT ![key] = 1] ELSE clicks

\* this.data.clicks[key]++ behind its `!== undefined` guard
IncrementClick(clicks, key) ==
    IF key \in DOMAIN clicks THEN [clicks EXCEPT ![key] = @ + 1] ELSE clicks

\* TrackClickData with `else if` written for the second `if`
TrackClickDataElseTarget(d, type, target, t) ==
    LET c2 == IF type \in DOMAIN d.clicks THEN IncrementClick(d.clicks, type)
              ELSE IF target # Null THEN IncrementClick(d.clicks, target)
              ELSE d.clicks
    IN TrackInteraction([d EXCEPT !.clicks = c2], "click",
                        [type |-> type, target |-> target], t)

\* trackClick(type, target) up to, not including, saveData()
TrackClickData(d, type, target, t) ==
    LET c1 == IncrementClick(d.clicks, type)
        c2 == IF target # Null THEN IncrementClick(c1, target) ELSE c1
    IN TrackInteraction([d EXCEPT !.clicks = c2], "click",
                        [type |-> type, target |-> target], t)

\* trackSectionView(section)
TrackSectionView(d, section, t) ==
    LET v == IF section \in DOMAIN d.sectionViews
             THEN [d.sectionViews EXCEPT ![section] = @ + 1]
             ELSE d.sectionViews
    IN TrackInteraction([d EXCEPT !.sectionViews = v], "section_view",
                        [section |-> section], t)

\* trackThemePreference(preference) up to, not including, saveData()
TrackThemePreferenceData(d, preference, t) ==
    TrackInteraction([d EXCEPT !.themePreference = preference], "theme_change",
                     [preference |-> preference], t)

\* updateSectionTime(): the record after `timeOnSections[section] += timeSpent`.
\* The property is created when the record has none; undefined + n and
\* NaN + n are NaN, null + n is n
UpdateSectionTime(d, section, start, t) ==
    LET ts == d.timeOnSections
        timeSpent == t - start
    IN IF section \notin DOMAIN ts
       THEN [d EXCEPT !.timeOnSections = (section :> NaN) @@ ts]
       ELSE [d EXCEPT !.timeOnSections[section] =
                IF @ = NaN THEN NaN
                ELSE IF @ = JSONNull THEN timeSpent
                ELSE @ + timeSpent]

\* Object.values(o).reduce((a, b) => a + b, 0)
RECURSIVE SumOver(_, _)
SumOver(f, keys) ==
    IF keys = {} THEN 0
    ELSE LET k == CHOOSE x \in keys : TRUE IN f[k] + SumOver(f, keys \ {k})

SumValues(f) == SumOver(f, DOMAIN f)

\* GetEngagementScore with the weights of clicks and dwell time exchanged
GetEngagementScoreSwapped(d) ==
    (SumValues(d.clicks) * 4000) + (SumValues(d.timeOnSections) * 3)
        + (d.scrollDepth * 3000)

\* GetEngagementScore with the dwell time left in milliseconds
GetEngagementScoreMillis(d) ==
    (SumValues(d.clicks) * 3000) + (SumValues(d.timeOnSections) * 4000)
        + (d.scrollDepth * 3000)

\* getEngagementScore(), in units of 1/10000 so that the division of the
\* dwell time by 1000 and the weights 0.3, 0.4, 0.3 stay exact:
\*   (clicks * 0.3) + (time_ms / 1000 * 0.4) + (scroll * 0.3)
GetEngagementScore(d) ==
    (SumValues(d.clicks) * 3000) + (SumValues(d.timeOnSections) * 4)
        + (d.scrollDepth * 3000)

\* resetData(): the new record
ResetRecord(t) ==
    [clicks |-> [k \in ClickKeys |-> 0],
     scrollDepth |-> 0,
     timeOnSections |-> [s \in Sections |-> 0],
     sectionViews |-> [s \in Sections |-> 0],
     themePreference |-> "light",
     lastVisit |-> ToDateString(t),
     visitCount |-> 1,
     interactions |-> <<>>]

\* IncrementVisitCount without its `lastVisit !== today` guard
IncrementVisitCountAlways(d, t) ==
    [counted |-> TRUE,
     data |-> TrackInteraction([d EXCEPT !.visitCount = @ + 1,
                                         !.lastVisit = ToDateString(t)],
                               "visit", <<>>, t)]

\* incrementVisitCount() up to, not including, saveData(); `counted` tells
\* whether the visit was counted (and so saved)
IncrementVisitCount(d, t) ==
    LET today == ToDateString(t) IN
    IF d.lastVisit # today
    THEN [counted |-> TRUE,
          data |-> TrackInteraction([d EXCEPT !.visitCount = @ + 1, !.lastVisit = today],
                                    "visit", <<>>, t)]
    ELSE [counted |-> FALSE, data |-> d]

\* new InteractionTracker(): the record after the constructor, and the storage
ConstructTracker(st, t, bad) ==
    LET l == LoadData(st)
        d0 == IF l.found THEN l.value ELSE DefaultData
        v == IncrementVisitCount(d0, t)
    IN [data |-> v.data,
        storage |-> IF v.counted THEN SaveData(st, v.data, bad) ELSE st]

-----------------------------------------------------------------------------
(* EvolutionEngine *)

\* setupEvolutionRules(): the rule table, in its order
RuleNames == <<"projects_priority", "cta_optimization", "dark_theme_default",
               "project_highlight", "content_reveal">>
Rules == {RuleNames[i] : i \in 1..Len(RuleNames)}

\* Condition with `clicks.cta > 4` written for `clicks.cta > 3`
ConditionCtaAboveFour(r, d) ==
    CASE r = "projects_priority" ->
            /\ d.clicks["projects"] > d.clicks["about"] + 2
            /\ d.timeOnSections["projects"] > d.timeOnSections["about"]
      [] r = "cta_optimization" -> d.clicks["cta"] > 4 \/ d.clicks["contact"] > 5
      [] r = "dark_theme_default" ->
            d.clicks["themeToggle"] > 1 /\ d.themePreference = "dark"
      [] r = "project_highlight" -> d.clicks["projects"] > 8
      [] r = "content_reveal" -> d.scrollDepth > 70

\* rule.condition(data)
Condition(r, d) ==
    CASE r = "projects_priority" ->
            /\ d.clicks["projects"] > d.clicks["about"] + 2
            /\ d.timeOnSections["projects"] > d.timeOnSections["about"]
      [] r = "cta_optimization" -> d.clicks["cta"] > 3 \/ d.clicks["contact"] > 5
      [] r = "dark_theme_default" ->
            d.clicks["themeToggle"] > 1 /\ d.themePreference = "dark"
      [] r = "project_highlight" -> d.clicks["projects"] > 8
      [] r = "content_reveal" -> d.scrollDepth > 70

\* rule.cooldown
Cooldown(r) ==
    CASE r = "projects_priority" -> 30000
      [] r = "cta_optimization" -> 45000
      [] r = "dark_theme_default" -> 60000
      [] r = "project_highlight" -> 25000
      [] r = "content_reveal" -> 30000

\* The state one callback works on.  Every method below maps a world to the
\* world after the call; t is Date.now() during the callback and `bad`
\* the storage keys whose setItem throws during it.
World ==
    [data |-> data, storage |-> storage, history |-> evolutionHistory,
     last |-> lastAppliedTimes, active |-> currentEvolutions, dom |-> dom,
     timers |-> timers, applied |-> applied]

\* setTimeout(callback, delay)
SetTimeout(w, kind, t, delay) ==
    [w EXCEPT !.timers = Append(@, [kind |-> kind, at |-> t + delay])]

\* loadEvolutionHistory()
LoadEvolutionHistory(st) ==
    LET saved == st[HistoryKey] IN
    IF saved.kind = "none" THEN <<>>
    ELSE LET p == JSONParse(saved) IN IF p.ok THEN p.value ELSE <<>>

\* saveEvolutionHistory()
SaveEvolutionHistory(st, h, bad) ==
    SetItem(st, HistoryKey, JSONStringify(h), bad)

\* LogEvolution with slice(0, 100) written for slice(-100)
LogEvolutionKeepOldest(w, description, t, bad) ==
    LET evolutionEvent ==
            [timestamp |-> t,
             description |-> description,
             data |-> JSONParse(JSONStringify(w.data)).value,
             engagementScore |-> GetEngagementScore(w.data)]
        pushed == Append(w.history, evolutionEvent)
        h == IF Len(pushed) > HistoryCap THEN SubSeq(pushed, 1, HistoryCap) ELSE pushed
    IN [w EXCEPT !.history = h,
                 !.storage = SaveEvolutionHistory(w.storage, h, bad)]

\* logEvolution(description)
LogEvolution(w, description, t, bad) ==
    LET evolutionEvent ==
            [timestamp |-> t,
             description |-> description,
             data |-> JSONParse(JSONStringify(w.data)).value,
             engagementScore |-> GetEngagementScore(w.data)]
        pushed == Append(w.history, evolutionEvent)
        h == IF Len(pushed) > HistoryCap THEN SliceLast(pushed, HistoryCap) ELSE pushed
    IN [w EXCEPT !.history = h,
                 !.storage = SaveEvolutionHistory(w.storage, h, bad)]

\* showEvolutionNotice(message); the page has its #evolutionNotice element
ShowEvolutionNotice(w, message, t) ==
    SetTimeout([w EXCEPT !.dom.noticeShown = TRUE, !.dom.noticeText = message],
               "hideNotice", t, NoticeHideMs)

\* moveProjectsUp()
MoveProjectsUp(w, t, bad) ==
    IF ~w.dom.projectsFirst
    THEN ShowEvolutionNotice(
            LogEvolution(SetTimeout(w, "reorder", t, ReorderDelayMs),
                         "Projects section moved up based on your interest!", t, bad),
            "Projects prioritized!", t)
    ELSE w

\* optimizeCTA()
OptimizeCTA(w, t, bad) ==
    ShowEvolutionNotice(
        LogEvolution([w EXCEPT !.dom.ctaRewrites = @ + 1],
                     "CTA buttons optimized based on engagement!", t, bad),
        "CTAs enhanced!", t)

\* setDarkThemeDefault()
SetDarkThemeDefault(w, t, bad) ==
    IF ~w.dom.darkTheme
    THEN LET d == TrackThemePreferenceData(w.data, "dark", t)
             w1 == [w EXCEPT !.dom.darkTheme = TRUE,
                             !.data = d,
                             !.storage = SaveData(w.storage, d, bad)]
         IN ShowEvolutionNotice(
                LogEvolution(w1, "Dark theme set as default based on user preference!",
                             t, bad),
                "Dark theme activated as your default preference.", t)
    ELSE w

\* highlightPopularProject()
HighlightPopularProject(w, t, bad) ==
    ShowEvolutionNotice(
        LogEvolution([w EXCEPT !.dom.glowStyles = @ + 1],
                     "Projects highlighted based on user interest!", t, bad),
        "Projects highlighted!", t)

\* revealAdditionalContent()
RevealAdditionalContent(w, t, bad) ==
    ShowEvolutionNotice(
        LogEvolution([w EXCEPT !.dom.bonusBlocks = @ + 1],
                     "Additional content revealed due to deep engagement!", t, bad),
        "Exclusive content unlocked!", t)

\* rule.action()
RuleAction(r, w, t, bad) ==
    CASE r = "projects_priority" -> MoveProjectsUp(w, t, bad)
      [] r = "cta_optimization" -> OptimizeCTA(w, t, bad)
      [] r = "dark_theme_default" -> SetDarkThemeDefault(w, t, bad)
      [] r = "project_highlight" -> HighlightPopularProject(w, t, bad)
      [] r = "content_reveal" -> RevealAdditionalContent(w, t, bad)

\* ShouldApplyRule without its notCurrentlyActive conjunct
ShouldApplyRuleNoActive(w, r, t) ==
    LET lastApplied == IF r \in DOMAIN w.last THEN w.last[r] ELSE 0
        cooldownPassed == t - lastApplied > Cooldown(r)
    IN Condition(r, w.data) /\ cooldownPassed

\* shouldApplyRule(rule, data)
ShouldApplyRule(w, r, t) ==
    LET lastApplied == IF r \in DOMAIN w.last THEN w.last[r] ELSE 0
        cooldownPassed == t - lastApplied > Cooldown(r)
        notCurrentlyActive == r \notin w.active
    IN Condition(r, w.data) /\ cooldownPassed /\ notCurrentlyActive

\* ApplyRule without currentEvolutions.add and lastAppliedTimes.set
ApplyRuleNoRecord(w, r, t, bad) ==
    [RuleAction(r, w, t, bad) EXCEPT !.applied[r] = Append(@, t)]

\* the body of the forEach in checkEvolutionRules(), for one rule
ApplyRule(w, r, t, bad) ==
    LET w1 == RuleAction(r, w, t, bad) IN
    [w1 EXCEPT !.active = @ \cup {r},
               !.last = (r :> t) @@ @,
               !.applied[r] = Append(@, t)]

\* CheckFrom that stops at the first rule it applies
RECURSIVE CheckFromFirstOnly(_, _, _, _)
CheckFromFirstOnly(i, w, t, bad) ==
    IF i > Len(RuleNames) THEN w
    ELSE LET r == RuleNames[i] IN
         IF ShouldApplyRule(w, r, t) THEN ApplyRule(w, r, t, bad)
         ELSE CheckFromFirstOnly(i + 1, w, t, bad)

\* checkEvolutionRules(), from the i-th rule of the table on
RECURSIVE CheckFrom(_, _, _, _)
CheckFrom(i, w, t, bad) ==
    IF i > Len(RuleNames) THEN w
    ELSE LET r == RuleNames[i] IN
         CheckFrom(i + 1,
                   IF ShouldApplyRule(w, r, t) THEN ApplyRule(w, r, t, bad) ELSE w,
                   t, bad)

CheckEvolutionRules(w, t, bad) == CheckFrom(1, w, t, bad)

-----------------------------------------------------------------------------
(* The page *)

\* A freshly parsed document
FreshDom ==
    [darkTheme |-> FALSE,       \* body has class dark-theme
     projectsFirst |-> FALSE,   \* #projects is the element right before #about
     noticeShown |-> FALSE,     \* #evolutionNotice has class show
     noticeText |-> "",
     ctaRewrites |-> 0,         \* times the three button labels were rewritten
     glowStyles |-> 0,          \* <style> elements appended by highlightPopularProject
     bonusBlocks |-> 0,         \* blocks appended by revealAdditionalContent
     formFilled |-> {},         \* the contact form's fields with a non-empty value
     notification |-> "none"]   \* type of the last showNotification() element

NoRuleTimes == [r \in Rules |-> <<>>]

Commit(w) ==
    /\ data' = w.data
    /\ storage' = w.storage
    /\ evolutionHistory' = w.history
    /\ lastAppliedTimes' = w.last
    /\ currentEvolutions' = w.active
    /\ dom' = w.dom
    /\ timers' = w.timers
    /\ applied' = w.applied

\* history: the callback that ran, and the rules it marked active
Did(op, w) == trace' = [op |-> op, fired |-> w.active \ currentEvolutions]

\* trackClick(type, target), saveData() included
TrackClick(w, type, target, t, bad) ==
    LET d == TrackClickData(w.data, type, target, t) IN
    [w EXCEPT !.data = d, !.storage = SaveData(w.storage, d, bad)]

\* trackThemePreference(preference), saveData() included
TrackThemePreference(w, preference, t, bad) ==
    LET d == TrackThemePreferenceData(w.data, preference, t) IN
    [w EXCEPT !.data = d, !.storage = SaveData(w.storage, d, bad)]

\* DocumentClick that clears the pending check before it schedules one
DocumentClickDebounced(w, t) ==
    SetTimeout([w EXCEPT !.data = TrackerDocumentClick(w.data, t),
                         !.timers = SelectSeq(@, LAMBDA x : x.kind # "check")],
               "check", t, ClickCheckDelayMs)

\* The two document-level click listeners, in registration order: the
\* tracker's (setupInteractionTracking) and the engine's (init)
DocumentClick(w, t) ==
    SetTimeout([w EXCEPT !.data = TrackerDocumentClick(w.data, t)],
               "check", t, ClickCheckDelayMs)

\* toggleTheme()
ToggleTheme(w, t, bad) ==
    LET isDark == ~w.dom.darkTheme
        w1 == [w EXCEPT !.dom.darkTheme = isDark]
        w2 == TrackClick(w1, "themeToggle", Null, t, bad)
    IN TrackThemePreference(w2, IF isDark THEN "dark" ELSE "light", t, bad)

\* Load whose EvolutionEngine.init() does not call checkEvolutionRules()
LoadWithoutFirstCheck ==
    /\ phase = "closed"
    /\ loads < MaxLoads
    /\ \E gap \in {0, MsPerDay} :
         LET t == now + gap
             tr == ConstructTracker(storage, t, failing)
             w0 == [data |-> tr.data, storage |-> tr.storage,
                    history |-> LoadEvolutionHistory(tr.storage),
                    last |-> <<>>, active |-> {}, dom |-> FreshDom,
                    timers |-> <<[kind |-> "save", at |-> t + SaveIntervalMs]>>,
                    applied |-> NoRuleTimes]
             w2 == [w0 EXCEPT !.timers = Append(@, [kind |-> "tick", at |-> t + TickMs])]
             w3 == IF w2.data.themePreference = "dark"
                   THEN [w2 EXCEPT !.dom.darkTheme = TRUE] ELSE w2
         IN /\ now' = t
            /\ Commit(w3)
            /\ trace' = [op |-> "load", fired |-> w3.active]
    /\ phase' = "open"
    /\ currentSection' = "home"
    /\ sectionStartTime' = now'
    /\ maxScrollDepth' = 0
    /\ loadTime' = now'
    /\ loads' = loads + 1
    /\ UNCHANGED <<failing, events, score>>

\* new PortfolioApp() on a fresh document, gap ms after the last thing that
\* happened: new InteractionTracker(), new EvolutionEngine(tracker) with its
\* first checkEvolutionRules(), then init() with applySavedPreferences()
Load ==
    /\ phase = "closed"
    /\ loads < MaxLoads
    /\ \E gap \in {0, MsPerDay} :
         LET t == now + gap
             tr == ConstructTracker(storage, t, failing)
             w0 == [data |-> tr.data, storage |-> tr.storage,
                    history |-> LoadEvolutionHistory(tr.storage),
                    last |-> <<>>, active |-> {}, dom |-> FreshDom,
                    timers |-> <<[kind |-> "save", at |-> t + SaveIntervalMs]>>,
                    applied |-> NoRuleTimes]
             w1 == CheckEvolutionRules(w0, t, failing)
             w2 == [w1 EXCEPT !.timers = Append(@, [kind |-> "tick", at |-> t + TickMs])]
             w3 == IF w2.data.themePreference = "dark"
                   THEN [w2 EXCEPT !.dom.darkTheme = TRUE] ELSE w2
         IN /\ now' = t
            /\ Commit(w3)
            /\ trace' = [op |-> "load", fired |-> w3.active]
    /\ phase' = "open"
    /\ currentSection' = "home"
    /\ sectionStartTime' = now'
    /\ maxScrollDepth' = 0
    /\ loadTime' = now'
    /\ loads' = loads + 1
    /\ UNCHANGED <<failing, events, score>>

\* one more event of the user or the environment, while the page is open
UserEvent ==
    /\ phase = "open"
    /\ events > 0
    /\ events' = events - 1
    /\ UNCHANGED <<now, phase, loadTime, loads, failing, score>>

TrackerIdle == UNCHANGED <<currentSection, sectionStartTime, maxScrollDepth>>

\* click on #themeToggle
ClickThemeToggle ==
    /\ UserEvent /\ TrackerIdle
    /\ LET w == DocumentClick(ToggleTheme(World, now, failing), now)
       IN Commit(w) /\ Did("clickThemeToggle", w)

\* click on a .nav-link with data-section = section
ClickNavLink ==
    /\ UserEvent /\ TrackerIdle
    /\ \E section \in {"home", "about"} :
         LET w == DocumentClick(TrackClick(World, "navigation", section, now, failing), now)
         IN Commit(w) /\ Did("clickNavLink", w)

\* click on a .project-card
ClickProjectCard ==
    /\ UserEvent /\ TrackerIdle
    /\ LET w == DocumentClick(TrackClick(World, "projects", Null, now, failing), now)
       IN Commit(w) /\ Did("clickProjectCard", w)

\* click on #exploreProjects or #contactHero
ClickCta ==
    /\ UserEvent /\ TrackerIdle
    /\ LET w == DocumentClick(TrackClick(World, "cta", Null, now, failing), now)
       IN Commit(w) /\ Did("clickCta", w)

\* the four inputs of the contact form
FormFields == {"name", "email", "subject", "message"}

\* handleContactSubmit() on a form whose non-empty fields are `filled`; of
\* showNotification() only the type is kept
HandleContactSubmit(w, filled) ==
    IF filled # FormFields
    THEN [w EXCEPT !.dom.formFilled = filled, !.dom.notification = "error"]
    ELSE [w EXCEPT !.dom.formFilled = {}, !.dom.notification = "success"]

\* the contact form, filled in completely or without its message, is
\* submitted through its button: the click event, then the submit event with
\* handleContactSubmit() and trackClick('contact')
SubmitContact ==
    /\ UserEvent /\ TrackerIdle
    /\ \E filled \in {FormFields, FormFields \ {"message"}} :
         LET w == TrackClick(HandleContactSubmit(DocumentClick(World, now), filled),
                             "contact", Null, now, failing)
         IN /\ Commit(w)
            /\ trace' = [op |-> "submitContact", fired |-> {}, args |-> filled]

\* click on #closeNotice: hideEvolutionNotice()
ClickCloseNotice ==
    /\ UserEvent /\ TrackerIdle
    /\ dom.noticeShown
    /\ LET w == DocumentClick([World EXCEPT !.dom.noticeShown = FALSE], now)
       IN Commit(w) /\ Did("clickCloseNotice", w)

\* window scroll event; permille is (scrollY + innerHeight) / scrollHeight in
\* thousandths, and Math.round(x * 100) rounds it to percent
Scroll ==
    /\ UserEvent
    /\ \E permille \in {300, 705} :
         /\ IF permille > maxScrollDepth
            THEN /\ maxScrollDepth' = permille
                 /\ data' = [data EXCEPT !.scrollDepth = (permille + 5) \div 10]
            ELSE UNCHANGED <<maxScrollDepth, data>>
         /\ timers' = Append(SelectSeq(timers, LAMBDA x : x.kind # "scrollLog"),
                             [kind |-> "scrollLog", at |-> now + ScrollLogDelayMs])
    /\ trace' = [op |-> "scroll", fired |-> {}]
    /\ UNCHANGED <<storage, currentSection, sectionStartTime, evolutionHistory,
                   lastAppliedTimes, currentEvolutions, dom, applied>>

\* the tracker's IntersectionObserver reports the section[data-section]
\* element with this id as visible
ObserveSection(section) ==
    /\ UserEvent
    /\ data' = TrackSectionView(
                   UpdateSectionTime(data, currentSection, sectionStartTime, now),
                   section, now)
    /\ currentSection' = section
    /\ sectionStartTime' = now
    /\ trace' = [op |-> "sectionVisible", fired |-> {}]
    /\ UNCHANGED <<storage, maxScrollDepth, evolutionHistory, lastAppliedTimes,
                   currentEvolutions, dom, timers, applied>>

\* one of the sections the record has counters for becomes visible
SectionVisible == \E section \in {"about", "projects"} : ObserveSection(section)

\* any section[data-section] of the page becomes visible: one the record has
\* counters for, or one it has none for
AnySectionVisible ==
    \E section \in {"about", "projects", "skills"} : ObserveSection(section)

\* ResetData that also clears the engine's active rules and application times
ResetDataClearsEngine ==
    /\ UserEvent /\ TrackerIdle
    /\ LET d == ResetRecord(now)
           w == [World EXCEPT !.data = d, !.storage = SaveData(storage, d, failing),
                              !.active = {}, !.last = <<>>]
       IN Commit(w) /\ Did("resetData", w)

\* tracker.resetData(), called on the page's tracker
ResetData ==
    /\ UserEvent /\ TrackerIdle
    /\ LET d == ResetRecord(now)
           w == [World EXCEPT !.data = d, !.storage = SaveData(storage, d, failing)]
       IN Commit(w) /\ Did("resetData", w)

\* tracker.trackClick(type, target), called on the page's tracker with a
\* known or unknown category and no target, a known or an unknown one
CallTrackClick ==
    /\ UserEvent /\ TrackerIdle
    /\ \E type \in {"cta", "navigation", "footer"},
          target \in {Null, "about", "home"} :
         LET w == TrackClick(World, type, target, now, failing)
         IN /\ Commit(w)
            /\ trace' = [op |-> "trackClick", fired |-> {}, args |-> <<type, target>>]

\* tracker.getEngagementScore() called on a tracker holding `data`
ComputeScore ==
    /\ score' = GetEngagementScore(data)
    /\ trace' = [op |-> "getEngagementScore", fired |-> {}]
    /\ UNCHANGED <<now, phase, storage, data, currentSection, sectionStartTime,
                   maxScrollDepth, evolutionHistory, lastAppliedTimes,
                   currentEvolutions, dom, timers, failing, loadTime, applied,
                   events, loads>>

\* the environment: localStorage starts rejecting writes (full, disabled), or
\* accepts them again
StorageFault ==
    /\ events > 0
    /\ events' = events - 1
    /\ failing' = IF failing = {} THEN StorageKeys ELSE {}
    /\ trace' = [op |-> "storageFault", fired |-> {}]
    /\ UNCHANGED <<now, phase, storage, data, currentSection, sectionStartTime,
                   maxScrollDepth, evolutionHistory, lastAppliedTimes,
                   currentEvolutions, dom, timers, loadTime, applied, loads, score>>

-----------------------------------------------------------------------------
(* Timers *)

RemoveAt(s, i) == SubSeq(s, 1, i - 1) \o SubSeq(s, i + 1, Len(s))

\* the timer the event loop runs next: the earliest deadline, then the
\* earliest registration
NextTimer ==
    CHOOSE i \in 1..Len(timers) :
        \A j \in 1..Len(timers) :
            \/ timers[j].at > timers[i].at
            \/ (timers[j].at = timers[i].at /\ j >= i)

TimerDue(kind) ==
    /\ phase = "open"
    /\ timers # <<>>
    /\ timers[NextTimer].at <= now
    /\ timers[NextTimer].kind = kind

PageIdle == UNCHANGED <<now, phase, loadTime, loads, events, failing, score>>

\* setTimeout(() => this.checkEvolutionRules(), 1000) of a document click
DelayedCheck ==
    /\ TimerDue("check")
    /\ PageIdle /\ TrackerIdle
    /\ LET w == CheckEvolutionRules([World EXCEPT !.timers = RemoveAt(timers, NextTimer)],
                                    now, failing)
       IN Commit(w) /\ Did("delayedCheck", w)

\* setInterval(() => this.checkEvolutionRules(), 10000)
Tick ==
    /\ TimerDue("tick")
    /\ PageIdle /\ TrackerIdle
    /\ LET rearmed == Append(RemoveAt(timers, NextTimer),
                             [kind |-> "tick", at |-> timers[NextTimer].at + TickMs])
           w == CheckEvolutionRules([World EXCEPT !.timers = rearmed], now, failing)
       IN Commit(w) /\ Did("tick", w)

\* setInterval(() => this.saveData(), 30000)
SaveTimer ==
    /\ TimerDue("save")
    /\ PageIdle /\ TrackerIdle
    /\ LET rearmed == Append(RemoveAt(timers, NextTimer),
                             [kind |-> "save", at |-> timers[NextTimer].at + SaveIntervalMs])
           w == [World EXCEPT !.timers = rearmed,
                              !.storage = SaveData(storage, data, failing)]
       IN Commit(w) /\ Did("saveData", w)

\* the debounced trackInteraction('scroll', { depth }) of the scroll listener
ScrollLogTimer ==
    /\ TimerDue("scrollLog")
    /\ PageIdle /\ TrackerIdle
    /\ LET w == [World EXCEPT !.timers = RemoveAt(timers, NextTimer),
                              !.data = TrackInteraction(data, "scroll",
                                                        [depth |-> data.scrollDepth], now)]
       IN Commit(w) /\ Did("scrollLog", w)

\* the 5-second timer of showEvolutionNotice: hideEvolutionNotice()
HideNoticeTimer ==
    /\ TimerDue("hideNotice")
    /\ PageIdle /\ TrackerIdle
    /\ LET w == [World EXCEPT !.timers = RemoveAt(timers, NextTimer),
                              !.dom.noticeShown = FALSE]
       IN Commit(w) /\ Did("hideNotice", w)

\* the 300 ms timer of moveProjectsUp: container.insertBefore(projects, about)
ReorderTimer ==
    /\ TimerDue("reorder")
    /\ PageIdle /\ TrackerIdle
    /\ LET w == [World EXCEPT !.timers = RemoveAt(timers, NextTimer),
                              !.dom.projectsFirst = TRUE]
       IN Commit(w) /\ Did("reorder", w)

\* the clock runs on to the next timer's deadline
Advance ==
    /\ phase = "open"
    /\ timers # <<>>
    /\ timers[NextTimer].at > now
    /\ timers[NextTimer].at <= loadTime + MaxTicks * TickMs
    /\ now' = timers[NextTimer].at
    /\ trace' = [op |-> "advance", fired |-> {}]
    /\ UNCHANGED <<phase, storage, data, currentSection, sectionStartTime,
                   maxScrollDepth, evolutionHistory, lastAppliedTimes,
                   currentEvolutions, dom, timers, failing, loadTime, applied,
                   events, loads, score>>

\* beforeunload: updateSectionTime(), saveData(); then the page is gone
Unload ==
    /\ phase = "open"
    /\ loads < MaxLoads
    /\ events > 0
    /\ events' = events - 1
    /\ storage' = SaveData(storage,
                           UpdateSectionTime(data, currentSection, sectionStartTime, now),
                           failing)
    /\ trace' = [op |-> "unload", fired |-> {}]
    /\ phase' = "closed"
    /\ data' = DefaultData
    /\ currentSection' = "home"
    /\ sectionStartTime' = now
    /\ maxScrollDepth' = 0
    /\ evolutionHistory' = <<>>
    /\ lastAppliedTimes' = <<>>
    /\ currentEvolutions' = {}
    /\ dom' = FreshDom
    /\ timers' = <<>>
    /\ applied' = NoRuleTimes
    /\ UNCHANGED <<now, loadTime, loads, failing, score>>

-----------------------------------------------------------------------------
(* Specifications *)

\* the clock at the start: 40 seconds before a midnight, far more than any
\* cooldown after time 0 (and the clock stays within 32 bits)
StartTime == (10 * MsPerDay) - (4 * TickMs)

\* A record an earlier visit left in storage, one event short of each rule
SeedData ==
    [clicks |-> [k \in ClickKeys |->
                    CASE k = "projects" -> 8 [] k = "about" -> 6 [] k = "cta" -> 3
                      [] k = "contact" -> 5 [] k = "themeToggle" -> 1
                      [] OTHER -> 0],
     scrollDepth |-> 70,
     timeOnSections |-> [s \in Sections |->
                            CASE s = "projects" -> 2000 [] s = "about" -> 1000
                              [] OTHER -> 0],
     themePreference |-> "light",
     lastVisit |-> ToDateString(StartTime),
     visitCount |-> 2,
     sectionViews |-> [s \in Sections |-> 1],
     interactions |-> <<[type |-> "visit", timestamp |-> StartTime - TickMs, data |-> <<>>]>>]

NoStorage == [k \in StorageKeys |-> NoItem]

SeedStorage ==
    [k \in StorageKeys |->
        IF k = DataKey THEN JSONStringify(SeedData) ELSE JSONStringify(<<>>)]

\* no page yet; the tracker's record and the storage are set by each Init
InitIdle ==
    /\ now = StartTime
    /\ phase = "closed"
    /\ currentSection = "home"
    /\ sectionStartTime = StartTime
    /\ maxScrollDepth = 0
    /\ evolutionHistory = <<>>
    /\ lastAppliedTimes = <<>>
    /\ currentEvolutions = {}
    /\ dom = FreshDom
    /\ timers = <<>>
    /\ failing = {}
    /\ loadTime = StartTime
    /\ applied = NoRuleTimes
    /\ trace = [op |-> "none", fired |-> {}]
    /\ score = 0
    /\ loads = 0

InitPage == InitIdle /\ data = DefaultData

Init ==
    /\ InitPage
    /\ events = MaxEvents
    /\ storage \in {NoStorage, SeedStorage}

Next ==
    \/ Load
    \/ ClickThemeToggle
    \/ ClickNavLink
    \/ ClickProjectCard
    \/ ClickCta
    \/ SubmitContact
    \/ ClickCloseNotice
    \/ Scroll
    \/ SectionVisible
    \/ ResetData
    \/ StorageFault
    \/ DelayedCheck
    \/ Tick
    \/ SaveTimer
    \/ ScrollLogTimer
    \/ HideNoticeTimer
    \/ ReorderTimer
    \/ Advance
    \/ Unload

Spec == Init /\ [][Next]_vars

-----------------------------------------------------------------------------
(* Properties *)

CheckOps == {"tick", "delayedCheck"}

\* C1: within one page load every rule's action is executed at most once,
\* whatever ticks, delayed checks and tracker updates are interleaved.
C1_AtMostOncePerSession == \A r \in Rules : Len(applied[r]) <= 1

\* a check has just run on an active rule whose predicate holds and whose
\* cooldown has elapsed, and the rule's action still ran only once
C1_Witness ==
    \E r \in Rules :
        /\ trace.op \in CheckOps
        /\ r \in currentEvolutions
        /\ Condition(r, data)
        /\ now - lastAppliedTimes[r] > Cooldown(r)
        /\ Len(applied[r]) = 1

\* C4 as stated: no operation of the tracker makes a click counter or a view
\* counter smaller within a page load.
C4_CountersNeverDecrease ==
    [][(phase = "open" /\ phase' = "open") =>
          /\ \A k \in ClickKeys : data'.clicks[k] >= data.clicks[k]
          /\ \A x \in Sections : data'.sectionViews[x] >= data.sectionViews[x]]_vars

\* C4 as amended: no operation of the tracker other than resetData makes a
\* click counter or a view counter smaller within a page load.
C4_CountersNeverDecreaseButReset ==
    [][(phase = "open" /\ phase' = "open" /\ trace'.op # "resetData") =>
          /\ \A k \in ClickKeys : data'.clicks[k] >= data.clicks[k]
          /\ \A x \in Sections : data'.sectionViews[x] >= data.sectionViews[x]]_vars

\* a click was tracked on top of counters an earlier visit had left
C4_Witness ==
    /\ phase = "open"
    /\ trace.op = "clickProjectCard"
    /\ data.clicks["projects"] > 8

\* C9: two applications of one rule in a page load are more than the rule's
\* cooldown apart.
C9_CooldownInvariant ==
    \A r \in Rules :
        \A i, j \in 1..Len(applied[r]) :
            i < j => applied[r][j] - applied[r][i] > Cooldown(r)

\* a check has just run on a rule applied less than its cooldown ago whose
\* predicate holds, and did not apply it
C9_Witness ==
    \E r \in Rules :
        /\ trace.op \in CheckOps
        /\ r \in currentEvolutions \ trace.fired
        /\ Condition(r, data)
        /\ now - lastAppliedTimes[r] <= Cooldown(r)
        /\ Len(applied[r]) = 1

\* C10: whenever a check of a running page marks rules active, it appends one
\* history entry per rule, each with the description, the snapshot of the
\* data and the engagement score of that moment, and shows the notice.
C10_EveryFiredRuleLogs ==
    [][(trace'.op \in CheckOps /\ trace'.fired # {}) =>
          LET n == Cardinality(trace'.fired) IN
          /\ Len(evolutionHistory') = Min(Len(evolutionHistory) + n, HistoryCap)
          /\ \A i \in 1..Len(evolutionHistory') :
                i > Len(evolutionHistory') - n =>
                    /\ evolutionHistory'[i].data = data'
                    /\ evolutionHistory'[i].engagementScore = GetEngagementScore(data')
                    /\ evolutionHistory'[i].timestamp = now'
          /\ dom'.noticeShown]_vars

\* the callbacks that end with saveData()
SaveOps == {"saveData", "resetData", "submitContact"}

\* the data of an InteractionTracker constructed now over the storage
FreshData == ConstructTracker(storage, now, failing).data

-----------------------------------------------------------------------------
(* getEngagementScore on records of bounded counters *)

MaxCount == 2       \* largest value of one click counter in ScoreRecords

\* dwell times: none, 2.5 seconds in each of two sections, 1.25 seconds in
\* each of the four
DwellTimes ==
    {[x \in Sections |-> 0],
     [x \in Sections |-> IF x \in {"home", "about"} THEN 2500 ELSE 0],
     [x \in Sections |-> IF x \in {"projects", "contact"} THEN 2500 ELSE 0],
     [x \in Sections |-> 1250]}

\* records with every combination of small click counters, these dwell times
\* and a scroll depth of 0 or 50 percent
ScoreRecords ==
    {[DefaultData EXCEPT !.clicks = c, !.timeOnSections = ts, !.scrollDepth = sd] :
        c \in [ClickKeys -> 0..MaxCount],
        ts \in DwellTimes,
        sd \in {0, 50}}

InitScore ==
    /\ InitIdle
    /\ events = 0
    /\ storage = NoStorage
    /\ data \in ScoreRecords

NextScore == ComputeScore

SpecScore == InitScore /\ [][NextScore]_vars

\* C7: getEngagementScore returns 0.3 x the sum of the seven click counters
\* + 0.4 x the sum of the four dwell times in seconds + 0.3 x scrollDepth
\* (here in units of 1/10000), and 0 when all of them are 0.
C7_EngagementScoreFormula ==
    trace.op = "getEngagementScore" =>
        /\ score = 3000 * (data.clicks["projects"] + data.clicks["contact"]
                           + data.clicks["about"] + data.clicks["themeToggle"]
                           + data.clicks["social"] + data.clicks["cta"]
                           + data.clicks["navigation"])
                   + 4 * (data.timeOnSections["home"] + data.timeOnSections["about"]
                          + data.timeOnSections["projects"]
                          + data.timeOnSections["contact"])
                   + 3000 * data.scrollDepth
        /\ ((/\ \A k \in ClickKeys : data.clicks[k] = 0
             /\ \A x \in Sections : data.timeOnSections[x] = 0
             /\ data.scrollDepth = 0) => score = 0)

\* the score of a record with clicks, dwell time and scroll depth: 3 clicks,
\* 5 seconds, 50 percent give 0.9 + 2.0 + 15.0
C7_Witness ==
    /\ trace.op = "getEngagementScore"
    /\ data.clicks["cta"] = 2
    /\ data.clicks["projects"] = 1
    /\ data.timeOnSections["about"] = 1250
    /\ data.timeOnSections["contact"] = 1250
    /\ data.scrollDepth = 50
    /\ score = 179000

\* a record with 10 clicks in total, 5000 ms of dwell time in total and a
\* scroll depth of 50
TenFiveFifty ==
    /\ SumValues(data.clicks) = 10
    /\ SumValues(data.timeOnSections) = 5000
    /\ data.scrollDepth = 50

\* C8 as stated: for 10 clicks, 5 dwell seconds and scrollDepth 50 the score
\* is 5.0.
C8_ScoreIsFive ==
    (trace.op = "getEngagementScore" /\ TenFiveFifty) => score = 50000

\* C8 as amended: for 10 clicks, 5 dwell seconds and scrollDepth 50 the score
\* is 20.0 (3.0 + 2.0 + 15.0).
C8_ScoreIsTwenty ==
    (trace.op = "getEngagementScore" /\ TenFiveFifty) => score = 200000

\* the score of such a record has been computed
C8_Witness ==
    /\ trace.op = "getEngagementScore"
    /\ TenFiveFifty
    /\ data.clicks["cta"] = 2
    /\ data.clicks["social"] = 0
    /\ data.timeOnSections["home"] = 2500

-----------------------------------------------------------------------------
(* Clicks on the call-to-action buttons of a first visit *)

MaxCtaClicks == 4   \* clicks in one behaviour of SpecCta

InitCta ==
    /\ InitPage
    /\ events = MaxCtaClicks
    /\ storage = NoStorage

NextCta ==
    \/ Load
    \/ ClickCta
    \/ DelayedCheck
    \/ Tick
    \/ SaveTimer
    \/ HideNoticeTimer
    \/ Advance

SpecCta == InitCta /\ [][NextCta]_vars

\* C5: from zeroed defaults, once trackClick('cta') has been called 4 times
\* the cta_optimization predicate is true; optimizeCTA has run exactly once
\* after the first check that follows, and still exactly once after every
\* later check; before the 4th click it has not run.
C5_CtaOptimizedExactlyOnce ==
    /\ data.clicks["cta"] >= 4 => Condition("cta_optimization", data)
    /\ dom.ctaRewrites = Len(applied["cta_optimization"])
    /\ dom.ctaRewrites <= 1
    /\ (phase = "open" /\ data.clicks["cta"] < 4) => dom.ctaRewrites = 0
    /\ (trace.op \in CheckOps /\ data.clicks["cta"] >= 4) => dom.ctaRewrites = 1

\* a 10-second tick runs after 4 clicks and after the check that rewrote the
\* labels, and the labels have been rewritten once
C5_Witness ==
    /\ trace.op = "tick"
    /\ data.clicks["cta"] = 4
    /\ data.clicks["contact"] = 0
    /\ Len(applied["cta_optimization"]) = 1
    /\ applied["cta_optimization"][1] < now
    /\ dom.ctaRewrites = 1

-----------------------------------------------------------------------------
(* An interaction log at its cap *)

MaxLogEvents == 2   \* user events in one behaviour of SpecLog

\* the log an earlier visit left: n entries, oldest first
SeedLog(n) ==
    [i \in 1..n |-> [type |-> "scroll",
                     timestamp |-> StartTime - TickMs - LogCap + i,
                     data |-> [depth |-> 0]]]

\* the record of a visitor who chose the dark theme, with n log entries
LogSeedData(n) ==
    [DefaultData EXCEPT !.clicks["themeToggle"] = 3,
                        !.themePreference = "dark",
                        !.lastVisit = ToDateString(StartTime),
                        !.visitCount = 1,
                        !.interactions = SeedLog(n)]

LogSeedStorage(n) ==
    [k \in StorageKeys |->
        IF k = DataKey THEN JSONStringify(LogSeedData(n)) ELSE NoItem]

InitLog ==
    /\ InitPage
    /\ events = MaxLogEvents
    /\ storage \in {LogSeedStorage(n) : n \in (LogCap - 1)..LogCap}

NextLog ==
    \/ Load
    \/ ClickThemeToggle
    \/ ClickCta
    \/ Scroll
    \/ SectionVisible
    \/ DelayedCheck
    \/ Tick
    \/ SaveTimer
    \/ ScrollLogTimer
    \/ HideNoticeTimer
    \/ Advance

SpecLog == InitLog /\ [][NextLog]_vars

\* the callbacks that always append to the interaction log
AppendOps ==
    {"clickThemeToggle", "clickNavLink", "clickProjectCard", "clickCta",
     "submitContact", "clickCloseNotice", "sectionVisible", "scrollLog"}

\* the log a callback starts from: the tracker's, or the stored one when the
\* page is being constructed
BaseLog ==
    IF phase = "open" THEN data.interactions
    ELSE LET l == LoadData(storage) IN
         IF l.found THEN l.value.interactions ELSE <<>>

\* the last k entries of s
Newest(s, k) == SubSeq(s, Len(s) - k + 1, Len(s))

\* C2: the log never has more than 1000 entries, and every callback leaves
\* the most recent 1000 of the old entries followed by the entries it
\* appended (up to three: toggleTheme's two and the document click), in
\* order; the callbacks that always append leave an entry of this moment last.
C2_LogKeepsNewest ==
    /\ [](Len(data.interactions) <= LogCap)
    /\ [][phase' = "open" =>
            /\ \E k \in 0..3 :
                 /\ k <= Len(data'.interactions)
                 /\ data'.interactions =
                        SliceLast(BaseLog \o Newest(data'.interactions, k), LogCap)
                 /\ \A i \in 1..k :
                        Newest(data'.interactions, k)[i].timestamp = now'
            /\ trace'.op \in AppendOps =>
                 /\ data'.interactions # <<>>
                 /\ data'.interactions[Len(data'.interactions)].timestamp = now'
                 /\ data'.interactions # BaseLog]_vars

\* a tracked click has just pushed the log past 1000 entries: it has 1000,
\* the oldest stored entry is gone and the newest entry is the click's
C2_Witness ==
    /\ trace.op = "clickCta"
    /\ Len(data.interactions) = LogCap
    /\ data.interactions[1].timestamp > SeedLog(1)[1].timestamp
    /\ data.interactions[LogCap].type = "click"
    /\ data.interactions[LogCap].timestamp = now
    /\ data.interactions[LogCap - 1].timestamp = now

-----------------------------------------------------------------------------
(* An evolution history at its cap *)

\* the history earlier visits left: n entries, oldest first
SeedHistory(n) ==
    [i \in 1..n |-> [timestamp |-> StartTime - TickMs - HistoryCap + i,
                     description |-> "CTA buttons optimized based on engagement!",
                     data |-> DefaultData,
                     engagementScore |-> 0]]

HistorySeedStorage(n) ==
    [k \in StorageKeys |->
        IF k = DataKey THEN JSONStringify(SeedData)
        ELSE JSONStringify(SeedHistory(n))]

InitHistory ==
    /\ InitPage
    /\ events = MaxEvents
    /\ storage \in {HistorySeedStorage(n) : n \in (HistoryCap - 1)..HistoryCap}

SpecHistory == InitHistory /\ [][Next]_vars

\* the rules whose action calls logEvolution() unconditionally
LoggingRules == {"cta_optimization", "project_highlight", "content_reveal"}

\* the history a callback starts from: the engine's, or the stored one when
\* the page is being constructed
BaseHistory ==
    IF phase = "open" THEN evolutionHistory ELSE LoadEvolutionHistory(storage)

\* every callback leaves the most recent 100 of the old entries followed by
\* the entries it appended (at most one per rule), in order
HistoryKeepsNewest ==
    \E k \in 0..Len(RuleNames) :
        /\ k <= Len(evolutionHistory')
        /\ evolutionHistory' =
               SliceLast(BaseHistory \o Newest(evolutionHistory', k), HistoryCap)
        /\ \A i \in 1..k : Newest(evolutionHistory', k)[i].timestamp = now'

\* a callback that ran optimizeCTA, highlightPopularProject or
\* revealAdditionalContent leaves an entry of this moment last
LoggingRuleLogged ==
    trace'.fired \cap LoggingRules # {} =>
        /\ evolutionHistory' # <<>>
        /\ evolutionHistory'[Len(evolutionHistory')].timestamp = now'
        /\ evolutionHistory' # BaseHistory

\* C3 as stated: the history never has more than 100 entries, every
\* logEvolution leaves the most recent 100 entries in order, and after each
\* logEvolution the stored history is the one in memory.
C3_HistoryCappedAndPersisted ==
    /\ [](Len(evolutionHistory) <= HistoryCap)
    /\ [][phase' = "open" =>
            /\ HistoryKeepsNewest
            /\ LoggingRuleLogged
            /\ evolutionHistory' # BaseHistory =>
                   LoadEvolutionHistory(storage') = evolutionHistory']_vars

\* C3 as amended: the same, the stored history being the one in memory after
\* each logEvolution whose storage write succeeds.
C3_HistoryCappedAndPersistedOnSuccess ==
    /\ [](Len(evolutionHistory) <= HistoryCap)
    /\ [][phase' = "open" =>
            /\ HistoryKeepsNewest
            /\ LoggingRuleLogged
            /\ (evolutionHistory' # BaseHistory /\ HistoryKey \notin failing) =>
                   LoadEvolutionHistory(storage') = evolutionHistory']_vars

\* a check has just run optimizeCTA on a history of 100 entries: it has 100,
\* the oldest stored entry is gone, the newest is this check's, and the
\* stored history is the one in memory
C3_Witness ==
    /\ trace.op = "delayedCheck"
    /\ "cta_optimization" \in trace.fired
    /\ HistoryKey \notin failing
    /\ Len(evolutionHistory) = HistoryCap
    /\ evolutionHistory[1].timestamp > SeedHistory(1)[1].timestamp
    /\ evolutionHistory[HistoryCap].timestamp = now
    /\ evolutionHistory[HistoryCap].description = "CTA buttons optimized based on engagement!"
    /\ LoadEvolutionHistory(storage) = evolutionHistory

-----------------------------------------------------------------------------
(* trackClick called with known and unknown keys *)

InitTrackClick ==
    /\ InitPage
    /\ events = MaxEvents
    /\ storage \in {NoStorage, SeedStorage}

NextTrackClick ==
    \/ Load
    \/ CallTrackClick
    \/ StorageFault

SpecTrackClick == InitTrackClick /\ [][NextTrackClick]_vars

\* 1 when k is the key, else 0
OneIf(k, key) == IF k = key THEN 1 ELSE 0

\* what trackClick(args) leaves of the record: each counter up by one per
\* match with the category and with the target, one more log entry (the
\* oldest dropped at the cap), nothing else changed
TrackClickFrame ==
    LET type == trace'.args[1]
        target == trace'.args[2]
        n == Len(data'.interactions)
    IN /\ DOMAIN data'.clicks = ClickKeys
       /\ \A k \in ClickKeys :
             data'.clicks[k] = data.clicks[k] + OneIf(k, type) + OneIf(k, target)
       /\ n = Min(Len(data.interactions) + 1, LogCap)
       /\ \A i \in 1..(n - 1) :
             data'.interactions[i] = data.interactions[i + Len(data.interactions) + 1 - n]
       /\ data'.interactions[n].type = "click"
       /\ data'.interactions[n].timestamp = now
       /\ data'.interactions[n].data = [type |-> type, target |-> target]
       /\ [data' EXCEPT !.clicks = data.clicks, !.interactions = data.interactions] = data

\* C11 as stated: trackClick changes the counters and the log as TrackClickFrame
\* says, and on return the stored record is the one in memory.
C11_TrackClickFrameAndPersisted ==
    [][trace'.op = "trackClick" =>
          /\ TrackClickFrame
          /\ LoadData(storage') = [found |-> TRUE, value |-> data']]_vars

\* C11 as amended: the same, the stored record being the one in memory when
\* the storage write succeeds and the one stored before when it fails.
C11_TrackClickFrameAndPersistedOnSuccess ==
    [][trace'.op = "trackClick" =>
          /\ TrackClickFrame
          /\ DataKey \notin failing =>
                 LoadData(storage') = [found |-> TRUE, value |-> data']
          /\ DataKey \in failing => storage' = storage]_vars

\* trackClick('navigation', 'about') has returned on a record an earlier visit
\* left, after a call with an unknown category, and the record is stored
C11_Witness ==
    /\ trace.op = "trackClick"
    /\ trace.args = <<"navigation", "about">>
    /\ data.clicks["navigation"] = 1
    /\ data.clicks["about"] = 7
    /\ Len(data.interactions) = 3
    /\ data.interactions[2].data = [type |-> "footer", target |-> "home"]
    /\ DataKey \notin failing
    /\ LoadData(storage).value = data

-----------------------------------------------------------------------------
(* Construction over absent and unparseable blobs *)

\* what localStorage may hold under the two keys when the page is opened:
\* nothing, a string JSON.parse rejects, or what an earlier visit wrote
FallbackStorages ==
    {[k \in StorageKeys |-> IF k = DataKey THEN d ELSE h] :
        d \in {NoItem, Garbage, JSONStringify(SeedData)},
        h \in {NoItem, Garbage, JSONStringify(SeedHistory(2))}}

InitFallback ==
    /\ InitPage
    /\ events = MaxEvents
    /\ storage \in FallbackStorages

NextFallback ==
    \/ Load
    \/ ClickCta
    \/ DelayedCheck
    \/ Tick
    \/ SaveTimer
    \/ HideNoticeTimer
    \/ Advance
    \/ Unload

SpecFallback == InitFallback /\ [][NextFallback]_vars

Unusable == {NoItem, Garbage}

\* C12: constructing the page over an absent or unparseable interaction blob
\* completes and leaves the zeroed defaults with this visit counted (visit
\* count 1, last visit today, one visit entry in the log); over an absent or
\* unparseable history blob it leaves an empty evolution history.
C12_FallbackToDefaults ==
    [][(phase = "closed" /\ phase' = "open") =>
          /\ storage[DataKey] \in Unusable =>
                /\ \A k \in ClickKeys : data'.clicks[k] = 0
                /\ \A x \in Sections :
                      data'.timeOnSections[x] = 0 /\ data'.sectionViews[x] = 0
                /\ data'.scrollDepth = 0
                /\ data'.themePreference = "light"
                /\ data'.visitCount = 1
                /\ data'.lastVisit = ToDateString(now')
                /\ data'.interactions =
                       <<[type |-> "visit", timestamp |-> now', data |-> <<>>]>>
          /\ (storage[HistoryKey] \in Unusable /\ trace'.fired = {}) =>
                evolutionHistory' = <<>>]_vars

\* a page has been constructed over an absent or unparseable interaction blob
\* and an unparseable history blob
C12_Witness ==
    /\ trace.op = "load"
    /\ loads = 1
    /\ storage[HistoryKey] = Garbage
    /\ storage[DataKey] # Garbage
    /\ data.visitCount = 1
    /\ data.clicks["cta"] = 0
    /\ evolutionHistory = <<>>

-----------------------------------------------------------------------------
(* Storage writes that fail *)

\* the record a callback starts from: the tracker's, or the one the
\* constructor loads when the page is being constructed
BaseData ==
    IF phase = "open" THEN data
    ELSE LET l == LoadData(storage) IN IF l.found THEN l.value ELSE DefaultData

\* C13: while localStorage.setItem throws, every callback completes and
\* leaves both stored blobs as they were, and the update stays in memory:
\* trackClick's counter and log entry, trackThemePreference's theme,
\* incrementVisitCount's visit count and date, logEvolution's history entry.
C13_WriteFailureKeepsMemory ==
    [][(failing = StorageKeys /\ phase' = "open") =>
          /\ storage' = storage
          /\ trace'.op = "clickCta" =>
                /\ data'.clicks["cta"] = data.clicks["cta"] + 1
                /\ Len(data'.interactions) > Len(data.interactions)
          /\ trace'.op = "clickThemeToggle" =>
                /\ data'.clicks["themeToggle"] = data.clicks["themeToggle"] + 1
                /\ data'.themePreference # data.themePreference
                /\ data'.themePreference = IF dom'.darkTheme THEN "dark" ELSE "light"
          /\ (trace'.op = "load" /\ BaseData.lastVisit # ToDateString(now')) =>
                /\ data'.visitCount = BaseData.visitCount + 1
                /\ data'.lastVisit = ToDateString(now')
          /\ trace'.fired \cap LoggingRules # {} =>
                /\ Len(evolutionHistory') > Len(BaseHistory)
                /\ evolutionHistory'[Len(evolutionHistory')].timestamp = now']_vars

\* a check has logged optimizeCTA's entry while writes fail: the history has
\* the entry, the record has the 4th click, and the storage still holds what
\* the earlier visit left
C13_Witness ==
    /\ failing = StorageKeys
    /\ trace.op = "delayedCheck"
    /\ "cta_optimization" \in trace.fired
    /\ data.clicks["cta"] = 4
    /\ Len(evolutionHistory) = 1
    /\ storage = SeedStorage

-----------------------------------------------------------------------------
(* Contact form *)

\* C14: a submission with an empty field shows the error notification, leaves
\* the fields as they were and leaves every click counter as it was.
C14_InvalidSubmitChangesNothing ==
    [][(trace'.op = "submitContact" /\ trace'.args # FormFields) =>
          /\ dom'.notification = "error"
          /\ dom'.formFilled = trace'.args
          /\ data'.clicks = data.clicks]_vars

-----------------------------------------------------------------------------
(* One check over the whole rule table *)

\* the rules a check started now would find eligible: predicate true,
\* cooldown elapsed, not active
Eligible ==
    {r \in Rules :
        /\ Condition(r, data)
        /\ r \notin currentEvolutions
        /\ now - (IF r \in DOMAIN lastAppliedTimes THEN lastAppliedTimes[r] ELSE 0)
               > Cooldown(r)}

\* the place in the rule table of the rule that logs this description
TableRank(description) ==
    CASE description = "Projects section moved up based on your interest!" -> 1
      [] description = "CTA buttons optimized based on engagement!" -> 2
      [] description = "Dark theme set as default based on user preference!" -> 3
      [] description = "Projects highlighted based on user interest!" -> 4
      [] description = "Additional content revealed due to deep engagement!" -> 5

\* C15: a check of a running page applies every rule that is eligible when
\* it starts, and the history entries it appends are in the order of the
\* rule table.
C15_AllEligibleInTableOrder ==
    [][trace'.op \in CheckOps =>
          /\ trace'.fired = Eligible
          /\ \A r \in Eligible : applied'[r] = Append(applied[r], now)
          /\ \A i, j \in (Len(evolutionHistory) + 1)..Len(evolutionHistory') :
                i < j => TableRank(evolutionHistory'[i].description)
                            < TableRank(evolutionHistory'[j].description)]_vars

\* one check has applied the first, the second and the fourth rule of the
\* table and appended their three entries
C15_Witness ==
    /\ trace.op = "delayedCheck"
    /\ trace.fired = {"projects_priority", "cta_optimization", "project_highlight"}
    /\ Len(evolutionHistory) = 3
    /\ evolutionHistory[1].description = "Projects section moved up based on your interest!"
    /\ evolutionHistory[2].description = "CTA buttons optimized based on engagement!"
    /\ evolutionHistory[3].description = "Projects highlighted based on user interest!"

-----------------------------------------------------------------------------
(* Delayed checks of document clicks *)

\* the callbacks of a click that reaches the document
ClickOps ==
    {"clickThemeToggle", "clickNavLink", "clickProjectCard", "clickCta",
     "submitContact", "clickCloseNotice"}

\* the pending delayed checks, in the order they were scheduled
PendingChecks(ts) == SelectSeq(ts, LAMBDA x : x.kind = "check")

\* C16: every click adds one delayed check due 1 second later and leaves the
\* pending ones alone; no other callback removes a pending check; a delayed
\* check runs exactly one of them, when it is due; and the clock never passes
\* a pending check: it runs 1 second after its click and so after the
\* tracker update of that click.
C16_OneDelayedCheckPerClick ==
    /\ [](phase = "open" =>
            \A i \in 1..Len(timers) :
                timers[i].kind = "check" =>
                    (now <= timers[i].at /\ timers[i].at <= now + ClickCheckDelayMs))
    /\ [][(phase = "open" /\ phase' = "open") =>
            /\ trace'.op \in ClickOps =>
                  /\ PendingChecks(timers') =
                         Append(PendingChecks(timers),
                                [kind |-> "check", at |-> now + ClickCheckDelayMs])
                  /\ data' # data
            /\ trace'.op = "delayedCheck" =>
                  /\ PendingChecks(timers) # <<>>
                  /\ PendingChecks(timers)[1].at = now
                  /\ PendingChecks(timers') = Tail(PendingChecks(timers))
            /\ trace'.op \notin ClickOps \cup {"delayedCheck"} =>
                  PendingChecks(timers') = PendingChecks(timers)]_vars

\* two clicks within one second: the delayed check of the first has run and
\* seen the 4th cta click, the delayed check of the second is still pending
C16_Witness ==
    /\ trace.op = "delayedCheck"
    /\ "cta_optimization" \in trace.fired
    /\ data.clicks["cta"] = 4
    /\ Len(PendingChecks(timers)) = 1
    /\ PendingChecks(timers)[1].at = now

-----------------------------------------------------------------------------
(* Dwell times *)

InitSections ==
    /\ InitPage
    /\ events = MaxEvents
    /\ storage = NoStorage

NextSections ==
    \/ Load
    \/ AnySectionVisible
    \/ Tick
    \/ SaveTimer
    \/ Advance
    \/ Unload

SpecSections == InitSections /\ [][NextSections]_vars

\* C17: a section-visibility transition adds the time since the previous
\* transition to the accumulator of the section that was current, changes no
\* other accumulator, raises their sum by that time, and leaves the
\* accumulators with the keys home, about, projects and contact only.
C17_DwellTimeOfPreviousSection ==
    [][trace'.op = "sectionVisible" =>
          LET elapsed == now - sectionStartTime IN
          /\ DOMAIN data'.timeOnSections = Sections
          /\ data'.timeOnSections[currentSection] =
                 data.timeOnSections[currentSection] + elapsed
          /\ \A x \in Sections \ {currentSection} :
                 data'.timeOnSections[x] = data.timeOnSections[x]
          /\ SumOver(data'.timeOnSections, Sections) =
                 SumOver(data.timeOnSections, Sections) + elapsed]_vars

-----------------------------------------------------------------------------
(* Scroll depth *)

\* C18: a scroll event never lowers data.scrollDepth, also in a page
\* constructed over a stored record, so it never turns the content_reveal
\* predicate from true to false.
C18_ScrollDepthNeverDecreases ==
    [][trace'.op = "scroll" =>
          /\ data'.scrollDepth >= data.scrollDepth
          /\ Condition("content_reveal", data) =>
                 Condition("content_reveal", data')]_vars

-----------------------------------------------------------------------------
(* Rules across page loads *)

\* C19: the construction of a page applies every rule whose predicate holds
\* on the stored record, whatever earlier page loads applied: each such rule
\* is applied once, at construction time, and is active afterwards.
C19_AppliedAgainAtConstruction ==
    [][(phase = "closed" /\ phase' = "open") =>
          LET holding == {r \in Rules : Condition(r, BaseData)} IN
          /\ trace'.fired = holding
          /\ currentEvolutions' = holding
          /\ \A r \in Rules :
                applied'[r] = IF r \in holding THEN <<now'>> ELSE <<>>]_vars

\* the second page load has applied cta_optimization at its construction,
\* as the first one did after the 4th click: the stored history has both
\* entries
C19_Witness ==
    /\ trace.op = "load"
    /\ loads = 2
    /\ trace.fired = {"cta_optimization"}
    /\ applied["cta_optimization"] = <<now>>
    /\ Len(evolutionHistory) = 2
    /\ evolutionHistory[1].description = "CTA buttons optimized based on engagement!"
    /\ evolutionHistory[2].description = "CTA buttons optimized based on engagement!"
    /\ evolutionHistory[1].timestamp < evolutionHistory[2].timestamp

-----------------------------------------------------------------------------
(* resetData in a page that has applied a rule *)

MaxResetEvents == 5   \* user events in one behaviour of SpecReset

\* the record of a visitor who clicked the call-to-action buttons 4 times
ResetSeedStorage ==
    [k \in StorageKeys |->
        IF k = DataKey THEN JSONStringify([SeedData EXCEPT !.clicks["cta"] = 4])
        ELSE NoItem]

InitReset ==
    /\ InitPage
    /\ events = MaxResetEvents
    /\ storage = ResetSeedStorage

NextReset ==
    \/ Load
    \/ ClickCta
    \/ ResetData
    \/ StorageFault
    \/ DelayedCheck
    \/ Tick
    \/ SaveTimer
    \/ HideNoticeTimer
    \/ Advance

SpecReset == InitReset /\ [][NextReset]_vars

\* what resetData() leaves in memory: every click, dwell and view counter
\* and scrollDepth at 0, the log empty, visitCount at 1, and the engine's
\* active rules, application times and history as they were
ResetFrame ==
    /\ \A k \in ClickKeys : data'.clicks[k] = 0
    /\ DOMAIN data'.timeOnSections = Sections
    /\ \A x \in Sections :
          data'.timeOnSections[x] = 0 /\ data'.sectionViews[x] = 0
    /\ data'.scrollDepth = 0
    /\ data'.interactions = <<>>
    /\ data'.visitCount = 1
    /\ currentEvolutions' = currentEvolutions
    /\ lastAppliedTimes' = lastAppliedTimes
    /\ evolutionHistory' = evolutionHistory
    /\ applied' = applied

\* C20 as stated: resetData leaves ResetFrame and the stored record is the
\* reset one; no rule is applied a second time in the page load, also when
\* its predicate holds again on the counters counted from the reset.
C20_ResetPersistsAndLeavesEngineAlone ==
    /\ [](\A r \in Rules : Len(applied[r]) <= 1)
    /\ [][trace'.op = "resetData" =>
            /\ ResetFrame
            /\ LoadData(storage') = [found |-> TRUE, value |-> data']]_vars

\* C20 as amended: the same, the stored record being the reset one when the
\* storage write succeeds and the one stored before when it fails.
C20_ResetLeavesEngineAlone ==
    /\ [](\A r \in Rules : Len(applied[r]) <= 1)
    /\ [][trace'.op = "resetData" =>
            /\ ResetFrame
            /\ DataKey \notin failing =>
                   LoadData(storage') = [found |-> TRUE, value |-> data']
            /\ DataKey \in failing => storage' = storage]_vars

\* a check has run after resetData and 4 more cta clicks: the predicate of
\* cta_optimization holds again, and the rule, applied when the page was
\* constructed, was not applied again
C20_Witness ==
    /\ trace.op \in CheckOps
    /\ data.visitCount = 1
    /\ data.clicks["cta"] = 4
    /\ Condition("cta_optimization", data)
    /\ "cta_optimization" \in currentEvolutions \ trace.fired
    /\ applied["cta_optimization"] = <<loadTime>>
    /\ Len(evolutionHistory) = 1
    /\ LoadData(storage).value = data

\* ---------------------------------------------------------------------
\* The evolution notice and its hide timers

\* the deadlines of the pending setTimeout(() => this.hideEvolutionNotice(),
\* 5000) callbacks; showEvolutionNotice starts one per call and never
\* clears one
HideDeadlines ==
    {timers[i].at : i \in {j \in 1..Len(timers) : timers[j].kind = "hideNotice"}}

\* the time of the showEvolutionNotice call that put up the visible notice:
\* its own timer is the last one started, so the latest pending deadline
NoticeShownAt ==
    (CHOOSE a \in HideDeadlines : \A b \in HideDeadlines : b <= a) - NoticeHideMs

\* C21: a notice shown at time t is not hidden by a hide timer before
\* t + 5 seconds: when a timer of showEvolutionNotice hides the visible
\* notice, 5 seconds have passed since that notice was shown.
C21_NoticeStaysFiveSeconds ==
    [][(trace'.op = "hideNotice" /\ dom.noticeShown /\ ~dom'.noticeShown) =>
          now' >= NoticeShownAt + NoticeHideMs]_vars

====
